---- MODULE Spec2Model ----
(***************************************************************************)
(* Model of the per-ratio tracker, src/.github/workflows/script.js         *)
(* (the second script of that file, lines 64-390): the provider fallback   *)
(* chain fetchPrices, calculateRatios, the boundary state machine          *)
(* checkBoundary, the run health decisions of main and the state file.     *)
(*                                                                         *)
(* One invocation of the script is one run.  A run is a sequence of steps, *)
(* one per await point of main; the synchronous code between two awaits is *)
(* one step.  Runs do not overlap.  The wall clock advances between runs.  *)
(*                                                                         *)
(* JavaScript values are tagged records: Null, Num(n), NaN, Infinity and,  *)
(* between a division and Math.floor, the exact quotient Frac(n, d).       *)
(* Prices are integers in a minor unit (the ratios are scale free); the    *)
(* rounding of IEEE doubles is not modelled.                               *)
(* Timestamps are milliseconds, as returned by Date.now().                 *)
(***************************************************************************)
EXTENDS Integers, Sequences, FiniteSets, TLC

(***************************************************************************)
(* Bounds of the model.                                                    *)
(***************************************************************************)
\* the wall clock takes the values TickMs, 2*TickMs, ..., MaxTicks*TickMs
MaxTicks == 5
\* the hostile environment is followed over the last EnvHorizon + 1 values of
\* the clock
EnvHorizon == 1

(***************************************************************************)
(* Settings of the script.                                                 *)
(***************************************************************************)
HEARTBEAT_INTERVAL_HOURS == 6
WARNING_INTERVAL_HOURS == 3
BG_LOWER == 11
BG_UPPER == 15
BR_LOWER == 47
BR_UPPER == 50
GR_LOWER == 33
GR_UPPER == 40

\* the divisor (1000 * 60 * 60) that turns milliseconds into hours
MsPerHour == 1000 * 60 * 60
\* granularity of the modelled clock: an hour and a half
TickMs == (3 * MsPerHour) \div 2

(***************************************************************************)
(* JavaScript values.                                                      *)
(***************************************************************************)
Null == [t |-> "null"]
Num(n) == [t |-> "num", v |-> n]
NaN == [t |-> "nan"]
Infinity == [t |-> "inf"]

\* ToNumber(x) of a relational comparison: null converts to +0 (x is null or
\* a finite number)
ToNumber(x) == IF x = Null THEN 0 ELSE x.v

\* x < n  and  x > n  for a value x and a finite number n: every comparison
\* with NaN is false, Infinity is greater than every finite number
JsLess(x, n) == x \notin {NaN, Infinity} /\ ToNumber(x) < n
JsGreater(x, n) == x # NaN /\ (x = Infinity \/ ToNumber(x) > n)

\* truthiness of a value: null, 0 and NaN are falsy
Truthy(x) == x \notin {Null, NaN} /\ (x = Infinity \/ x.v # 0)

(***************************************************************************)
(* Provider adapters: what a successful adapter returns.                   *)
(***************************************************************************)
\* mutant of Apis: the first two adapters listed in the wrong order
Apis_GeckoFirst == <<"CoinGecko", "Nobitex", "CoinPaprika", "Binance">>

Apis == <<"Nobitex", "CoinGecko", "CoinPaprika", "Binance">>

BtcPrices == {92000, 100000, 102000}
XrpPrices == {2}
GoldPrices == {6200, 6600, 8400}

Quote(src, b, x, g) == [source |-> src, btc |-> b, xrp |-> x, gold |-> g]

fetchFromNobitex ==
  {Quote("Nobitex", Num(b), Num(x), Null) : b \in BtcPrices, x \in XrpPrices}

fetchFromCoingecko ==
  {Quote("CoinGecko", Num(b), Num(x), Num(g)) :
     b \in BtcPrices, x \in XrpPrices, g \in GoldPrices}

fetchFromCoinpaprika ==
  {Quote("CoinPaprika", Num(b), Num(x), Null) : b \in BtcPrices, x \in XrpPrices}

fetchFromBinance ==
  {Quote("Binance", Num(b), Num(x), Null) : b \in BtcPrices, x \in XrpPrices}

\* the quotes the adapter named api can return
ApiResults(api) ==
  CASE api = "Nobitex" -> fetchFromNobitex
    [] api = "CoinGecko" -> fetchFromCoingecko
    [] api = "CoinPaprika" -> fetchFromCoinpaprika
    [] api = "Binance" -> fetchFromBinance

\* what the adapters return, without throwing, on a response that is
\* reachable but lacks a price or carries a zero price:
\* Nobitex and Binance parseFloat a missing field to NaN, CoinGecko and
\* CoinPaprika pass the number of the response on as it is
OddQuotes(api) ==
  CASE api = "Nobitex" ->
         {Quote("Nobitex", NaN, Num(2), Null), Quote("Nobitex", Num(100000), NaN, Null)}
    [] api = "CoinGecko" ->
         {Quote("CoinGecko", Num(100000), Num(0), Num(6600)),
          Quote("CoinGecko", Num(100000), Num(2), Num(0))}
    [] api = "CoinPaprika" ->
         {Quote("CoinPaprika", Num(100000), Num(0), Null)}
    [] api = "Binance" ->
         {Quote("Binance", NaN, NaN, Null)}

NoPrices == Quote("", Num(0), Num(0), Null)

(***************************************************************************)
(* Ratio calculation.  A quotient is kept exact as <<numerator,            *)
(* denominator>> until Math.floor is taken.                                *)
(***************************************************************************)
Frac(n, d) == [t |-> "frac", n |-> n, d |-> d]

\* a / b for prices a, b (numbers >= 0 or NaN): NaN if either is NaN or
\* both are 0, Infinity if only b is 0
Quot(a, b) ==
  IF a = NaN \/ b = NaN THEN NaN
  ELSE IF b.v = 0 THEN (IF a.v = 0 THEN NaN ELSE Infinity)
  ELSE Frac(a.v, b.v)

\* q / k for a quotient q and a literal k > 0
QuotDiv(q, k) == IF q \in {NaN, Infinity} THEN q ELSE Frac(q.n, q.d * k)

\* mutant of truncate: Math.round
truncate_Round(q) ==
  IF q \in {NaN, Infinity} THEN q ELSE Num((2 * q.n + q.d) \div (2 * q.d))

\* Math.floor: NaN and Infinity are returned as they are
truncate(q) == IF q \in {NaN, Infinity} THEN q ELSE Num(q.n \div q.d)

calculateRatios(btc, xrp, gold) ==
  [bg |-> IF Truthy(gold) THEN truncate(Quot(btc, gold)) ELSE Null,
   br |-> truncate(QuotDiv(Quot(btc, xrp), 1000)),
   gr |-> IF Truthy(gold) THEN truncate(QuotDiv(Quot(gold, xrp), 100)) ELSE Null]

NoRatios == [bg |-> Null, br |-> Null, gr |-> Null]

(***************************************************************************)
(* State handling.  The state file is << >> when it does not exist,        *)
(* <<record>> when it holds the JSON text of a record and <<CorruptBlob>>  *)
(* when it holds something JSON.parse rejects.                             *)
(***************************************************************************)
CorruptBlob == [t |-> "corrupt"]

DefaultState ==
  [bgState |-> "inside", brState |-> "inside", grState |-> "inside",
   bgLastWarning |-> 0, brLastWarning |-> 0, grLastWarning |-> 0,
   lastRun |-> 0, lastHeartbeat |-> 0, warningSent |-> FALSE]

\* JSON.parse(fs.readFileSync(STATE_FILE)) throws a SyntaxError
loadStateThrows(f) == f = <<CorruptBlob>>

\* mutant of loadState: the defaults have a heartbeat time
loadState_DefaultHeartbeat(f) ==
  IF f = << >> THEN [DefaultState EXCEPT !.lastHeartbeat = TickMs] ELSE f[1]

\* what loadState returns when it does not throw
loadState(f) == IF f = << >> THEN DefaultState ELSE f[1]

\* JSON.stringify writes a number that is not finite as null, and
\* JSON.parse reads null back
JsonValue(x) == IF x \in {NaN, Infinity} THEN Null ELSE x

\* the file after fs.writeFileSync(STATE_FILE, JSON.stringify(state)); of the
\* fields of state only bg, br and gr can hold a number that is not finite
saveState(state) ==
  <<[state EXCEPT !.bg = JsonValue(@), !.br = JsonValue(@), !.gr = JsonValue(@)]>>

(***************************************************************************)
(* Boundary checker.                                                       *)
(***************************************************************************)
\* mutant of CooldownElapsed: the cooldown has to be exceeded, not reached
CooldownElapsed_Strict(now, prevWarningTime) ==
  now - prevWarningTime > WARNING_INTERVAL_HOURS * MsPerHour

\* the cooldown test  hours >= WARNING_INTERVAL_HOURS  of checkBoundary,
\* hours = (now - prevWarningTime) / (1000 * 60 * 60), without the division
CooldownElapsed(now, prevWarningTime) ==
  now - prevWarningTime >= WARNING_INTERVAL_HOURS * MsPerHour

\* mutant of OutOfBand: a silent call within the cooldown restarts the cooldown
OutOfBand_RestartsCooldown(zone, prevState, prevWarningTime, now) ==
  IF prevState # zone
  THEN [triggered |-> TRUE, newState |-> zone, newWarningTime |-> now]
  ELSE IF now - prevWarningTime >= WARNING_INTERVAL_HOURS * MsPerHour
       THEN [triggered |-> TRUE, newState |-> prevState, newWarningTime |-> now]
       ELSE [triggered |-> FALSE, newState |-> prevState, newWarningTime |-> now]

\* mutant of OutOfBand: only a crossing from inside alerts at once; a switch
\* between below and above waits for the cooldown
OutOfBand_CooldownOnSwitch(zone, prevState, prevWarningTime, now) ==
  IF prevState = "inside"
  THEN [triggered |-> TRUE, newState |-> zone, newWarningTime |-> now]
  ELSE IF now - prevWarningTime >= WARNING_INTERVAL_HOURS * MsPerHour
       THEN [triggered |-> TRUE, newState |-> zone, newWarningTime |-> now]
       ELSE [triggered |-> FALSE, newState |-> zone,
             newWarningTime |-> prevWarningTime]

\* the body of  if (value < lower)  and of  else if (value > upper): zone is
\* "below" in the first and "above" in the second
OutOfBand(zone, prevState, prevWarningTime, now) ==
  IF prevState # zone
  THEN [triggered |-> TRUE, newState |-> zone, newWarningTime |-> now]
  ELSE IF CooldownElapsed(now, prevWarningTime)
       THEN [triggered |-> TRUE, newState |-> prevState, newWarningTime |-> now]
       ELSE [triggered |-> FALSE, newState |-> prevState,
             newWarningTime |-> prevWarningTime]

\* mutant of InBand: the return into the band is not announced
InBand_Silent(prevState, prevWarningTime) ==
  [triggered |-> FALSE, newState |-> "inside", newWarningTime |-> prevWarningTime]

\* the body of the final else
InBand(prevState, prevWarningTime) ==
  [triggered |-> prevState # "inside", newState |-> "inside",
   newWarningTime |-> prevWarningTime]

\* mutant of checkBoundary: the upper bound is exclusive (value >= upper)
checkBoundary_ExclusiveUpper(value, lower, upper, prevState, prevWarningTime, now) ==
  IF JsLess(value, lower)
  THEN OutOfBand("below", prevState, prevWarningTime, now)
  ELSE IF ToNumber(value) >= upper
       THEN OutOfBand("above", prevState, prevWarningTime, now)
       ELSE InBand(prevState, prevWarningTime)

checkBoundary(value, lower, upper, prevState, prevWarningTime, now) ==
  IF JsLess(value, lower)
  THEN OutOfBand("below", prevState, prevWarningTime, now)
  ELSE IF JsGreater(value, upper)
       THEN OutOfBand("above", prevState, prevWarningTime, now)
       ELSE InBand(prevState, prevWarningTime)

NoCheck == [triggered |-> FALSE, newState |-> "inside", newWarningTime |-> 0]

(***************************************************************************)
(* Telegram sender.  Both failure paths of sendTelegram (missing           *)
(* credentials, a failed POST) return normally, so a call never changes    *)
(* the caller's control flow; the call is recorded in the run's log.  The  *)
(* text recorded is the statement that sent it: the stall warning and the  *)
(* heartbeat both send baseMsg, the alerts baseMsg with (BG), (BR), (GR).  *)
(* The channel is "ok", "nocreds" (TELEGRAM_BOT or TELEGRAM_CHAT unset) or *)
(* "down" (axios.post rejects).                                            *)
(***************************************************************************)
Event(op, arg) == [op |-> op, arg |-> arg]

sendTelegram(calls, text) == Append(calls, Event("sendTelegram", text))

\* mutant of sendTelegramOutcome: axios.post is awaited outside a try
sendTelegramOutcome_NoCatch(channel) ==
  CASE channel = "nocreds" -> "skipped"
    [] channel = "ok" -> "posted"
    [] channel = "down" -> "thrown"

\* how a call of sendTelegram ends: "skipped" (the early return), "posted",
\* "caught" (the catch logs the error) or "thrown" (the caller sees the error)
sendTelegramOutcome(channel) ==
  CASE channel = "nocreds" -> "skipped"
    [] channel = "ok" -> "posted"
    [] channel = "down" -> "caught"

(***************************************************************************)
(* State of the model.                                                     *)
(***************************************************************************)
VARIABLES
  clock,                \* Date.now(), in milliseconds
  stateFile,            \* state.json: << >> or <<record>>
  pc,                   \* position of the run in main
  apiIdx,               \* fetchPrices: index of the adapter the loop is at
  prices,               \* main: prices
  ratios,               \* main: ratios
  now,                  \* main: now
  prev,                 \* main: prev
  sendHeartbeat,        \* main: sendHeartbeat
  sendWorkflowWarning,  \* main: sendWorkflowWarning
  bgCheck,              \* main: bgCheck
  brCheck,              \* main: brCheck
  grCheck,              \* main: grCheck
  log,                  \* history: the adapter attempts and I/O calls of the run
  lastSaved,            \* history: the file as the last completed save left it
  telegram,             \* environment: the state of the notification channel
  delivered             \* history: the texts of the run that Telegram accepted

locals == <<prices, ratios, now, prev, sendHeartbeat, sendWorkflowWarning,
            bgCheck, brCheck, grCheck>>

vars == <<clock, stateFile, pc, apiIdx, prices, ratios, now, prev, sendHeartbeat,
          sendWorkflowWarning, bgCheck, brCheck, grCheck, log, lastSaved,
          telegram, delivered>>

\* the variables of a process that is not running
NoRun ==
  /\ apiIdx = 0
  /\ prices = NoPrices
  /\ ratios = NoRatios
  /\ now = 0
  /\ prev = DefaultState
  /\ sendHeartbeat = FALSE
  /\ sendWorkflowWarning = FALSE
  /\ bgCheck = NoCheck
  /\ brCheck = NoCheck
  /\ grCheck = NoCheck
  /\ log = << >>
  /\ delivered = << >>

Init ==
  /\ clock = TickMs
  /\ stateFile = << >>
  /\ lastSaved = << >>
  /\ telegram = "ok"
  /\ pc = "idle"
  /\ NoRun

(***************************************************************************)
(* Environment: time passes between two runs.                              *)
(***************************************************************************)
Tick ==
  /\ pc = "idle"
  /\ clock < MaxTicks * TickMs
  /\ clock' = clock + TickMs
  /\ UNCHANGED <<stateFile, pc, apiIdx, locals, log, lastSaved, telegram, delivered>>

\* the scheduler starts the script: main() is called and enters fetchPrices
MainStart ==
  /\ pc = "idle"
  /\ pc' = "fetchPrices"
  /\ apiIdx' = 1
  /\ UNCHANGED <<clock, stateFile, locals, log, lastSaved, telegram, delivered>>

(***************************************************************************)
(* fetchPrices: one iteration of  for (const api of apis).                 *)
(***************************************************************************)
\* mutant of FetchAdapterFails: the loop gives up before the last adapter
FetchAdapterFails_GivesUpEarly ==
  /\ pc = "fetchPrices"
  /\ log' = Append(log, Event("api:fail", Apis[apiIdx]))
  /\ IF apiIdx < Len(Apis) - 1
     THEN /\ apiIdx' = apiIdx + 1
          /\ UNCHANGED pc
     ELSE /\ pc' = "fetchError"
          /\ UNCHANGED apiIdx
  /\ UNCHANGED <<clock, stateFile, locals, lastSaved, telegram, delivered>>

\* await api() throws: continue with the next adapter, or leave the loop and
\* throw "All APIs failed", which main catches
FetchAdapterFails ==
  /\ pc = "fetchPrices"
  /\ log' = Append(log, Event("api:fail", Apis[apiIdx]))
  /\ IF apiIdx < Len(Apis)
     THEN /\ apiIdx' = apiIdx + 1
          /\ UNCHANGED pc
     ELSE /\ pc' = "fetchError"
          /\ UNCHANGED apiIdx
  /\ UNCHANGED <<clock, stateFile, locals, lastSaved, telegram, delivered>>

\* mutant of WorkflowDelayCheck: the warningSent flag is not consulted
WorkflowDelayCheck_IgnoresFlag(p, t) ==
  /\ p.lastRun # 0
  /\ t - p.lastRun >= WARNING_INTERVAL_HOURS * MsPerHour

\* WORKFLOW DELAY CHECK: the value of sendWorkflowWarning for the loaded state
\* p at time t (hoursSinceLast >= WARNING_INTERVAL_HOURS without the division)
WorkflowDelayCheck(p, t) ==
  /\ p.lastRun # 0
  /\ t - p.lastRun >= WARNING_INTERVAL_HOURS * MsPerHour
  /\ ~p.warningSent

\* mutant of HeartbeatCheck: the interval has to be exceeded, not reached
HeartbeatCheck_Strict(p, t) ==
  \/ p.lastHeartbeat = 0
  \/ t - p.lastHeartbeat > HEARTBEAT_INTERVAL_HOURS * MsPerHour

\* HEARTBEAT CHECK: the value of sendHeartbeat for the loaded state p at time t
HeartbeatCheck(p, t) ==
  \/ p.lastHeartbeat = 0
  \/ t - p.lastHeartbeat >= HEARTBEAT_INTERVAL_HOURS * MsPerHour

\* mutant of Decide: the check of gr is given the persisted zone of br
Decide_CrossWired(q, t, f) ==
  LET r == calculateRatios(q.btc, q.xrp, q.gold)
      p == loadState(f)
  IN  /\ prices' = q
      /\ ratios' = r
      /\ now' = t
      /\ prev' = p
      /\ sendWorkflowWarning' = WorkflowDelayCheck(p, t)
      /\ sendHeartbeat' = HeartbeatCheck(p, t)
      /\ bgCheck' = checkBoundary(r.bg, BG_LOWER, BG_UPPER, p.bgState, p.bgLastWarning, t)
      /\ brCheck' = checkBoundary(r.br, BR_LOWER, BR_UPPER, p.brState, p.brLastWarning, t)
      /\ grCheck' = checkBoundary(r.gr, GR_LOWER, GR_UPPER, p.brState, p.grLastWarning, t)

\* await api() returns a quote: fetchPrices returns it to main, which goes
\* on (synchronously) to compute the ratios, read the clock, load the state
\* and take its decisions, up to the first  await sendTelegram
Decide(q, t, f) ==
  LET r == calculateRatios(q.btc, q.xrp, q.gold)
      p == loadState(f)
  IN  /\ prices' = q
      /\ ratios' = r
      /\ now' = t
      /\ prev' = p
      /\ sendWorkflowWarning' = WorkflowDelayCheck(p, t)
      /\ sendHeartbeat' = HeartbeatCheck(p, t)
      /\ bgCheck' = checkBoundary(r.bg, BG_LOWER, BG_UPPER, p.bgState, p.bgLastWarning, t)
      /\ brCheck' = checkBoundary(r.br, BR_LOWER, BR_UPPER, p.brState, p.brLastWarning, t)
      /\ grCheck' = checkBoundary(r.gr, GR_LOWER, GR_UPPER, p.grState, p.grLastWarning, t)

\* main from the return of fetchPrices with the quote q up to the first
\* await sendTelegram, or up to the SyntaxError that loadState throws: main
\* has no catch around it, so the promise of main() rejects and the process
\* ends on the unhandled rejection
FetchReturns(q) ==
  /\ log' = Append(Append(log, Event("api:ok", Apis[apiIdx])), Event("loadState", ""))
  /\ IF loadStateThrows(stateFile)
     THEN /\ prices' = q
          /\ ratios' = calculateRatios(q.btc, q.xrp, q.gold)
          /\ now' = clock
          /\ pc' = "crashed"
          /\ UNCHANGED <<prev, sendHeartbeat, sendWorkflowWarning,
                         bgCheck, brCheck, grCheck>>
     ELSE /\ Decide(q, clock, stateFile)
          /\ pc' = "sendWorkflowWarning"
  /\ UNCHANGED <<clock, stateFile, apiIdx, lastSaved, telegram, delivered>>

FetchAdapterSucceeds ==
  /\ pc = "fetchPrices"
  /\ \E q \in ApiResults(Apis[apiIdx]) : FetchReturns(q)

(***************************************************************************)
(* main: the catch of the fetch error, the five sends and the save.        *)
(***************************************************************************)
\* mutant of MainFetchError: the failed run records its time in the state file
MainFetchError_TouchesState ==
  /\ pc = "fetchError"
  /\ log' = sendTelegram(log, "FetchError")
  /\ stateFile' = <<[loadState(stateFile) EXCEPT !.lastRun = clock]>>
  /\ pc' = "done"
  /\ UNCHANGED <<clock, apiIdx, locals, lastSaved, telegram, delivered>>

\* await sendTelegram(text) in the run, then on to the statement at next; an
\* error thrown by sendTelegram would end main like the one of loadState
Send(text, next) ==
  /\ log' = sendTelegram(log, text)
  /\ delivered' = IF sendTelegramOutcome(telegram) = "posted"
                  THEN Append(delivered, text) ELSE delivered
  /\ pc' = IF sendTelegramOutcome(telegram) = "thrown" THEN "crashed" ELSE next

MainFetchError ==
  /\ pc = "fetchError"
  /\ Send("FetchError", "done")
  /\ UNCHANGED <<clock, stateFile, apiIdx, locals, lastSaved, telegram>>

\* if (flag) await sendTelegram(text), then on to the statement at next
SendIf(at, flag, text, next) ==
  /\ pc = at
  /\ IF flag
     THEN Send(text, next)
     ELSE pc' = next /\ UNCHANGED <<log, delivered>>
  /\ UNCHANGED <<clock, stateFile, apiIdx, locals, lastSaved, telegram>>

MainSendWorkflowWarning ==
  SendIf("sendWorkflowWarning", sendWorkflowWarning, "workflowWarning", "sendHeartbeat")

MainSendHeartbeat ==
  SendIf("sendHeartbeat", sendHeartbeat, "heartbeat", "sendBG")

MainSendBG ==
  SendIf("sendBG", bgCheck.triggered, "BG", "sendBR")

MainSendBR ==
  SendIf("sendBR", brCheck.triggered, "BR", "sendGR")

MainSendGR ==
  SendIf("sendGR", grCheck.triggered, "GR", "saveState")

\* mutant of NewState: lastRun is carried over from the loaded state
NewState_KeepsLastRun ==
  [bg |-> ratios.bg, br |-> ratios.br, gr |-> ratios.gr,
   lastRun |-> prev.lastRun,
   lastHeartbeat |-> IF sendHeartbeat THEN now ELSE prev.lastHeartbeat,
   warningSent |-> IF sendWorkflowWarning THEN TRUE ELSE prev.warningSent,
   bgState |-> bgCheck.newState,
   brState |-> brCheck.newState,
   grState |-> grCheck.newState,
   bgLastWarning |-> bgCheck.newWarningTime,
   brLastWarning |-> brCheck.newWarningTime,
   grLastWarning |-> grCheck.newWarningTime]

\* the record main passes to saveState
NewState ==
  [bg |-> ratios.bg, br |-> ratios.br, gr |-> ratios.gr,
   lastRun |-> now,
   lastHeartbeat |-> IF sendHeartbeat THEN now ELSE prev.lastHeartbeat,
   warningSent |-> IF sendWorkflowWarning THEN TRUE ELSE prev.warningSent,
   bgState |-> bgCheck.newState,
   brState |-> brCheck.newState,
   grState |-> grCheck.newState,
   bgLastWarning |-> bgCheck.newWarningTime,
   brLastWarning |-> brCheck.newWarningTime,
   grLastWarning |-> grCheck.newWarningTime]

\* mutant of MainSaveState: the record is written twice
MainSaveState_Twice ==
  /\ pc = "saveState"
  /\ stateFile' = saveState(NewState)
  /\ lastSaved' = stateFile'
  /\ log' = Append(Append(log, Event("saveState", "")), Event("saveState", ""))
  /\ pc' = "done"
  /\ UNCHANGED <<clock, apiIdx, locals, telegram, delivered>>

MainSaveState ==
  /\ pc = "saveState"
  /\ stateFile' = saveState(NewState)
  /\ lastSaved' = stateFile'
  /\ log' = Append(log, Event("saveState", ""))
  /\ pc' = "done"
  /\ UNCHANGED <<clock, apiIdx, locals, telegram, delivered>>

\* the process exits; its memory is gone
Exit ==
  /\ pc \in {"done", "crashed"}
  /\ pc' = "idle"
  /\ apiIdx' = 0
  /\ prices' = NoPrices
  /\ ratios' = NoRatios
  /\ now' = 0
  /\ prev' = DefaultState
  /\ sendHeartbeat' = FALSE
  /\ sendWorkflowWarning' = FALSE
  /\ bgCheck' = NoCheck
  /\ brCheck' = NoCheck
  /\ grCheck' = NoCheck
  /\ log' = << >>
  /\ delivered' = << >>
  /\ UNCHANGED <<clock, stateFile, lastSaved, telegram>>

Next ==
  \/ Tick
  \/ MainStart
  \/ FetchAdapterFails
  \/ FetchAdapterSucceeds
  \/ MainFetchError
  \/ MainSendWorkflowWarning
  \/ MainSendHeartbeat
  \/ MainSendBG
  \/ MainSendBR
  \/ MainSendGR
  \/ MainSaveState
  \/ Exit

Spec == Init /\ [][Next]_vars

(***************************************************************************)
(* The same program in a hostile environment: the notification channel     *)
(* comes and goes, the state file gets damaged between two runs, an        *)
(* adapter gets a response without a price, an adapter never gets a        *)
(* response.  The first run of this specification starts EnvHorizon ticks  *)
(* before the end of the modelled time.                                    *)
(***************************************************************************)
InitEnv ==
  /\ clock = (MaxTicks - EnvHorizon) * TickMs
  /\ stateFile = << >>
  /\ lastSaved = << >>
  /\ telegram = "ok"
  /\ pc = "idle"
  /\ NoRun

\* the credentials are removed or restored, the Telegram API fails or recovers
TelegramChanges ==
  /\ \E c \in {"ok", "nocreds", "down"} : c # telegram /\ telegram' = c
  /\ UNCHANGED <<clock, stateFile, pc, apiIdx, locals, log, lastSaved, delivered>>

\* state.json is damaged (truncated, overwritten) while no run is in progress
CorruptStateFile ==
  /\ pc = "idle"
  /\ stateFile # <<CorruptBlob>>
  /\ stateFile' = <<CorruptBlob>>
  /\ UNCHANGED <<clock, pc, apiIdx, locals, log, lastSaved, telegram, delivered>>

\* await api() returns a quote made from a response without a usable price
FetchAdapterOdd ==
  /\ pc = "fetchPrices"
  /\ \E q \in OddQuotes(Apis[apiIdx]) : FetchReturns(q)

\* await api() never settles: axios.get is called without a timeout and the
\* provider keeps the connection open without answering
FetchAdapterHangs ==
  /\ pc = "fetchPrices"
  /\ log' = Append(log, Event("api:hang", Apis[apiIdx]))
  /\ pc' = "hung"
  /\ UNCHANGED <<clock, stateFile, apiIdx, locals, lastSaved, telegram, delivered>>

NextEnv ==
  \/ Next
  \/ TelegramChanges
  \/ CorruptStateFile
  \/ FetchAdapterOdd
  \/ FetchAdapterHangs

SpecEnv == InitEnv /\ [][NextEnv]_vars

(***************************************************************************)
(* calculateRatios on its own: the call of line 284 for prices drawn from  *)
(* sets that hold the quotients next to an integer (prices in cents, which *)
(* leaves every quotient as it is in dollars).                             *)
(***************************************************************************)
CalcBtc == {9200000, 10000000, 14999999, 15000000, 15000001}
CalcXrp == {200, 250, 300, 301}
CalcGold == {620000, 660000, 1000000, 1000001}

InitCalc ==
  /\ clock = TickMs
  /\ stateFile = << >>
  /\ lastSaved = << >>
  /\ telegram = "ok"
  /\ pc = "calculateRatios"
  /\ apiIdx = 0
  /\ \E b \in CalcBtc, x \in CalcXrp, g \in {Num(n) : n \in CalcGold} \cup {Null} :
       prices = Quote("", Num(b), Num(x), g)
  /\ ratios = NoRatios
  /\ now = 0
  /\ prev = DefaultState
  /\ sendHeartbeat = FALSE
  /\ sendWorkflowWarning = FALSE
  /\ bgCheck = NoCheck
  /\ brCheck = NoCheck
  /\ grCheck = NoCheck
  /\ log = << >>
  /\ delivered = << >>

\* const ratios = calculateRatios(prices.btc, prices.xrp, prices.gold)
CalcRatios ==
  /\ pc = "calculateRatios"
  /\ ratios' = calculateRatios(prices.btc, prices.xrp, prices.gold)
  /\ pc' = "calculated"
  /\ UNCHANGED <<clock, stateFile, apiIdx, prices, now, prev, sendHeartbeat,
                 sendWorkflowWarning, bgCheck, brCheck, grCheck, log, lastSaved,
                 telegram, delivered>>

SpecCalc == InitCalc /\ [][CalcRatios]_vars

(***************************************************************************)
(* The top-level script src/script.js: the same adapters, fetchPrices,     *)
(* calculateRatios, saveState and sendTelegram, but a main without         *)
(* boundary machines.  Its state file holds bg, br, gr, lastRun,           *)
(* lastHeartbeat and warningSent, and its loadState returns null when      *)
(* there is no file.  Its intervals are 0.45 and 0.8 hours, kept here in   *)
(* milliseconds; the clock advances by half a warning interval.            *)
(***************************************************************************)
MaxTopTicks == 7

TopWarningIntervalMs == 1620000
TopHeartbeatIntervalMs == 2880000
TopTickMs == TopWarningIntervalMs \div 2

\* loadState of src/script.js
TopLoadState(f) == IF f = << >> THEN Null ELSE f[1]

InitTop ==
  /\ clock = TopTickMs
  /\ stateFile = << >>
  /\ lastSaved = << >>
  /\ telegram = "ok"
  /\ pc = "idle"
  /\ NoRun

TopTick ==
  /\ pc = "idle"
  /\ clock < MaxTopTicks * TopTickMs
  /\ clock' = clock + TopTickMs
  /\ UNCHANGED <<stateFile, pc, apiIdx, locals, log, lastSaved, telegram, delivered>>

\* main() is called and enters fetchPrices
TopMainStart ==
  /\ pc = "idle"
  /\ pc' = "topFetchPrices"
  /\ apiIdx' = 1
  /\ UNCHANGED <<clock, stateFile, locals, log, lastSaved, telegram, delivered>>

\* await api() throws: continue, or throw "All APIs failed" after the loop
TopFetchAdapterFails ==
  /\ pc = "topFetchPrices"
  /\ log' = Append(log, Event("api:fail", Apis[apiIdx]))
  /\ IF apiIdx < Len(Apis)
     THEN /\ apiIdx' = apiIdx + 1
          /\ UNCHANGED pc
     ELSE /\ pc' = "topFetchError"
          /\ UNCHANGED apiIdx
  /\ UNCHANGED <<clock, stateFile, locals, lastSaved, telegram, delivered>>

\* TIMESTAMP DELAY CHECK: the value of sendWarning for the loaded state p
TopDelayCheck(p, t) ==
  /\ p # Null
  /\ p.lastRun # 0
  /\ t - p.lastRun >= TopWarningIntervalMs
  /\ ~p.warningSent

\* HEARTBEAT CHECK: the value of sendHeartbeat for the loaded state p
TopHeartbeatCheck(p, t) ==
  \/ p = Null
  \/ p.lastHeartbeat = 0
  \/ t - p.lastHeartbeat >= TopHeartbeatIntervalMs

\* RATIO CHANGE DETECTION, on the locals of the run
ratiosChanged ==
  \/ prev = Null
  \/ prev.bg # ratios.bg
  \/ prev.br # ratios.br
  \/ prev.gr # ratios.gr

\* await api() returns a quote: main computes the ratios, reads the clock,
\* loads the state and takes its decisions, up to the first send
TopFetchAdapterSucceeds ==
  /\ pc = "topFetchPrices"
  /\ \E q \in ApiResults(Apis[apiIdx]) :
       /\ prices' = q
       /\ ratios' = calculateRatios(q.btc, q.xrp, q.gold)
  /\ now' = clock
  /\ prev' = TopLoadState(stateFile)
  /\ sendWorkflowWarning' = TopDelayCheck(TopLoadState(stateFile), clock)
  /\ sendHeartbeat' = TopHeartbeatCheck(TopLoadState(stateFile), clock)
  /\ log' = Append(Append(log, Event("api:ok", Apis[apiIdx])), Event("loadState", ""))
  /\ pc' = "topSendWarning"
  /\ UNCHANGED <<clock, stateFile, apiIdx, bgCheck, brCheck, grCheck, lastSaved,
                 telegram, delivered>>

\* the catch of main: one message, then return
TopFetchError ==
  /\ pc = "topFetchError"
  /\ Send("AllApisFailed", "done")
  /\ UNCHANGED <<clock, stateFile, apiIdx, locals, lastSaved, telegram>>

TopSendWarning ==
  SendIf("topSendWarning", sendWorkflowWarning, "warning", "topSendHeartbeat")

TopSendHeartbeat ==
  SendIf("topSendHeartbeat", sendHeartbeat, "heartbeat", "topSendRatios")

TopSendRatios ==
  SendIf("topSendRatios", ratiosChanged, "ratios", "topSaveState")

\* the record main passes to saveState
TopNewState ==
  [bg |-> ratios.bg, br |-> ratios.br, gr |-> ratios.gr,
   lastRun |-> now,
   lastHeartbeat |-> IF sendHeartbeat THEN now
                     ELSE IF prev # Null THEN prev.lastHeartbeat ELSE now,
   warningSent |-> IF sendWorkflowWarning THEN TRUE ELSE FALSE]

TopSaveState ==
  /\ pc = "topSaveState"
  /\ stateFile' = saveState(TopNewState)
  /\ lastSaved' = stateFile'
  /\ log' = Append(log, Event("saveState", ""))
  /\ pc' = "done"
  /\ UNCHANGED <<clock, apiIdx, locals, telegram, delivered>>

\* the process exits; its memory is gone
TopExit ==
  /\ pc = "done"
  /\ pc' = "idle"
  /\ apiIdx' = 0
  /\ prices' = NoPrices
  /\ ratios' = NoRatios
  /\ now' = 0
  /\ prev' = DefaultState
  /\ sendHeartbeat' = FALSE
  /\ sendWorkflowWarning' = FALSE
  /\ bgCheck' = NoCheck
  /\ brCheck' = NoCheck
  /\ grCheck' = NoCheck
  /\ log' = << >>
  /\ delivered' = << >>
  /\ UNCHANGED <<clock, stateFile, lastSaved, telegram>>

NextTop ==
  \/ TopTick
  \/ TopMainStart
  \/ TopFetchAdapterFails
  \/ TopFetchAdapterSucceeds
  \/ TopFetchError
  \/ TopSendWarning
  \/ TopSendHeartbeat
  \/ TopSendRatios
  \/ TopSaveState
  \/ TopExit

SpecTop == InitTop /\ [][NextTop]_vars

(***************************************************************************)
(* Vocabulary of the properties.                                           *)
(***************************************************************************)
RatioNames == {"bg", "br", "gr"}

\* the value, band, alert text and persisted fields of the ratio named x
Value(r, x) == CASE x = "bg" -> r.bg [] x = "br" -> r.br [] x = "gr" -> r.gr
Lower(x) == CASE x = "bg" -> BG_LOWER [] x = "br" -> BR_LOWER [] x = "gr" -> GR_LOWER
Upper(x) == CASE x = "bg" -> BG_UPPER [] x = "br" -> BR_UPPER [] x = "gr" -> GR_UPPER
AlertText(x) == CASE x = "bg" -> "BG" [] x = "br" -> "BR" [] x = "gr" -> "GR"
ZoneField(rec, x) ==
  CASE x = "bg" -> rec.bgState [] x = "br" -> rec.brState [] x = "gr" -> rec.grState
WarnField(rec, x) ==
  CASE x = "bg" -> rec.bgLastWarning [] x = "br" -> rec.brLastWarning
    [] x = "gr" -> rec.grLastWarning

\* the zone of an integer n against the inclusive band [lo, hi]
Zone(n, lo, hi) == IF n < lo THEN "below" ELSE IF n > hi THEN "above" ELSE "inside"

\* the zone of the run's value of ratio x (the value must be present)
RunZone(x) == Zone(Value(ratios, x).v, Lower(x), Upper(x))

Present(x) == Value(ratios, x) # Null

Cooldown == WARNING_INTERVAL_HOURS * MsPerHour

\* the run has called sendTelegram with this text
Sent(text) == \E i \in DOMAIN log : log[i] = Event("sendTelegram", text)

\* the calls of sendTelegram of the run, in order
Sends == SelectSeq(log, LAMBDA e : e.op = "sendTelegram")

\* the adapter attempts of the run, in order
Attempts == SelectSeq(log, LAMBDA e : e.op \in {"api:fail", "api:ok"})

\* the run's fetch succeeded and main is past its decisions
Decided == pc \in {"sendWorkflowWarning", "sendHeartbeat", "sendBG", "sendBR",
                   "sendGR", "saveState"}

\* the run has ended after saving the state
Saved == pc = "done" /\ Len(log) > 0 /\ log[Len(log)].op = "saveState"

\* the run has ended in the catch of the fetch error
FetchFailed == pc = "done" /\ Len(log) > 0 /\ log[Len(log)].op # "saveState"

(***************************************************************************)
(* C1.  fetchPrices attempts the adapters strictly in the order Nobitex,   *)
(* CoinGecko, CoinPaprika, Binance: an adapter is attempted only after all *)
(* the adapters before it have failed, the first success ends the chain    *)
(* and its quote is what main works on (also when its gold is null), and   *)
(* the chain fails only after the four of them have been attempted.        *)
(***************************************************************************)
FixedOrder == <<"Nobitex", "CoinGecko", "CoinPaprika", "Binance">>

C1_PriorityOrder ==
  LET a == Attempts
      n == Len(Attempts)
  IN  /\ n <= 4
      /\ \A j \in 1..n : a[j].arg = FixedOrder[j]
      /\ \A j \in 1..(n - 1) : a[j].op = "api:fail"
      /\ (n > 0 /\ a[n].op = "api:ok") =>
           /\ pc \notin {"fetchPrices", "fetchError"}
           /\ prices.source = a[n].arg
           /\ prices \in ApiResults(a[n].arg)
      /\ pc = "fetchPrices" => (n = apiIdx - 1 /\ \A j \in 1..n : a[j].op = "api:fail")
      /\ pc = "fetchError" => (n = 4 /\ \A j \in 1..n : a[j].op = "api:fail")

\* Nobitex and CoinGecko failed, CoinPaprika succeeded without a gold price,
\* Binance was not attempted and the run went on to save its state
C1_Witness ==
  /\ Saved
  /\ Attempts = <<Event("api:fail", "Nobitex"), Event("api:fail", "CoinGecko"),
                  Event("api:ok", "CoinPaprika")>>
  /\ prices.source = "CoinPaprika"
  /\ prices.gold = Null

(***************************************************************************)
(* C2.  A run in which the four adapters fail calls sendTelegram exactly   *)
(* once, with the fetch error message, calls neither loadState nor         *)
(* saveState and leaves the state file as it was: at all times the file is *)
(* what the last run that saved left, and that is what a later successful  *)
(* run loads and takes lastRun and lastHeartbeat from.                     *)
(***************************************************************************)
C2_FetchFailureKeepsState ==
  /\ stateFile = lastSaved
  /\ pc = "fetchError" => \A i \in DOMAIN log : log[i].op = "api:fail"
  /\ FetchFailed =>
       /\ Sends = <<Event("sendTelegram", "FetchError")>>
       /\ \A i \in DOMAIN log : log[i].op \notin {"loadState", "saveState", "api:ok"}
       /\ Len(Attempts) = 4
  /\ Decided =>
       /\ prev = loadState(lastSaved)
       /\ sendWorkflowWarning = WorkflowDelayCheck(loadState(lastSaved), now)
       /\ sendHeartbeat = HeartbeatCheck(loadState(lastSaved), now)

\* a failed run has ended, three hours or more after the last saved run
C2_Witness ==
  /\ FetchFailed
  /\ stateFile # << >>
  /\ clock - stateFile[1].lastRun >= WARNING_INTERVAL_HOURS * MsPerHour
  /\ ~stateFile[1].warningSent

(***************************************************************************)
(* C3.  For each ratio whose value in a run is a number in an out-of-band  *)
(* zone other than the persisted zone, the run sends that ratio's alert,   *)
(* however recent the persisted last-alert time is, and the record it      *)
(* saves holds the run's now as that ratio's last-alert time (and the new  *)
(* zone).                                                                  *)
(***************************************************************************)
C3_NewZoneAlerts ==
  [][pc = "saveState" =>
       \A x \in RatioNames :
         (/\ Present(x)
          /\ RunZone(x) # "inside"
          /\ RunZone(x) # ZoneField(loadState(stateFile), x))
         => /\ Sent(AlertText(x))
            /\ WarnField(stateFile'[1], x) = now
            /\ ZoneField(stateFile'[1], x) = RunZone(x)]_vars

\* br went from below to above less than the cooldown after its last alert,
\* and the run alerted and saved its own time
C3_Witness ==
  /\ Saved
  /\ prev.brState = "below"
  /\ RunZone("br") = "above"
  /\ prev.brLastWarning # 0
  /\ now - prev.brLastWarning < Cooldown
  /\ Sent("BR")
  /\ stateFile[1].brLastWarning = now

(***************************************************************************)
(* C4.  For each ratio whose value in a run is a number in the persisted   *)
(* out-of-band zone, the run sends that ratio's alert if and only if       *)
(* now - lastAlertAt >= cooldown (three hours), and the saved last-alert   *)
(* time is now if it alerted and the persisted one if it did not; the      *)
(* alert is sent at most once in the run.                                  *)
(***************************************************************************)
C4_SameZoneCooldown ==
  [][pc = "saveState" =>
       \A x \in RatioNames :
         LET old == loadState(stateFile)
         IN  (/\ Present(x)
              /\ RunZone(x) # "inside"
              /\ RunZone(x) = ZoneField(old, x))
             => /\ Sent(AlertText(x)) <=> (now - WarnField(old, x) >= Cooldown)
                /\ WarnField(stateFile'[1], x) =
                     IF Sent(AlertText(x)) THEN now ELSE WarnField(old, x)
                /\ ZoneField(stateFile'[1], x) = ZoneField(old, x)
                /\ Cardinality({i \in DOMAIN log :
                                  log[i] = Event("sendTelegram", AlertText(x))}) <= 1]_vars

\* gr stayed above and the run came exactly one cooldown after the last
\* alert: the alert was sent again
C4_Witness ==
  /\ Saved
  /\ prev.grState = "above"
  /\ Present("gr")
  /\ RunZone("gr") = "above"
  /\ now - prev.grLastWarning = Cooldown
  /\ Sent("GR")
  /\ stateFile[1].grLastWarning = now

(***************************************************************************)
(* C5.  A run whose quote has no gold price sends no alert for bg and none *)
(* for gr.                                                                 *)
(***************************************************************************)
C5_NoAlertWithoutGold ==
  (Saved /\ prices.gold = Null) => (~Sent("BG") /\ ~Sent("GR"))

(***************************************************************************)
(* C6.  A run in which the value of a ratio is null saves that ratio's     *)
(* zone and last-alert time as they were persisted before the run.         *)
(***************************************************************************)
C6_AbsentValueKeepsState ==
  [][pc = "saveState" =>
       \A x \in RatioNames :
         ~Present(x) =>
           /\ ZoneField(stateFile'[1], x) = ZoneField(loadState(stateFile), x)
           /\ WarnField(stateFile'[1], x) = WarnField(loadState(stateFile), x)]_vars

(***************************************************************************)
(* C7.  For each ratio whose value in a run is a number inside the band    *)
(* while the persisted zone is below or above, the run sends that ratio's  *)
(* alert (the recovery notice) and saves the zone inside.                  *)
(***************************************************************************)
C7_RecoveryAlerts ==
  [][pc = "saveState" =>
       \A x \in RatioNames :
         (/\ Present(x)
          /\ RunZone(x) = "inside"
          /\ ZoneField(loadState(stateFile), x) \in {"below", "above"})
         => /\ Sent(AlertText(x))
            /\ ZoneField(stateFile'[1], x) = "inside"]_vars

\* bg came back from above into its band
C7_Witness ==
  /\ Saved
  /\ prev.bgState = "above"
  /\ Present("bg")
  /\ RunZone("bg") = "inside"
  /\ Sent("BG")
  /\ stateFile[1].bgState = "inside"

(***************************************************************************)
(* C8.  After a run that evaluated a number for a ratio, the saved zone of *)
(* that ratio is the zone of the number against the inclusive band: below  *)
(* iff value < lower, above iff value > upper, inside otherwise.           *)
(***************************************************************************)
C8_ZoneIsClassification ==
  Saved => \A x \in RatioNames :
             Present(x) =>
               LET n == Value(ratios, x).v
                   z == ZoneField(stateFile[1], x)
               IN  /\ z = "below" <=> n < Lower(x)
                   /\ z = "above" <=> n > Upper(x)
                   /\ z = "inside" <=> (Lower(x) <= n /\ n <= Upper(x))

\* all three values sit on a bound of their band and are saved as inside
C8_Witness ==
  /\ Saved
  /\ ratios.bg = Num(BG_UPPER)
  /\ ratios.br = Num(BR_UPPER)
  /\ ratios.gr = Num(GR_LOWER)
  /\ stateFile[1].bgState = "inside"
  /\ stateFile[1].brState = "inside"
  /\ stateFile[1].grState = "inside"

(***************************************************************************)
(* C9.  A successful run sends the stall warning if and only if the        *)
(* persisted lastRun is set (non-zero), now - lastRun >= the warning       *)
(* interval and the persisted warningSent is false; a run that sends it    *)
(* saves warningSent = true; a run that finds no state file does not send  *)
(* it.                                                                     *)
(***************************************************************************)
C9_StallWarning ==
  [][pc = "saveState" =>
       LET old == loadState(stateFile)
       IN  /\ Sent("workflowWarning") <=>
                (/\ old.lastRun # 0
                 /\ now - old.lastRun >= WARNING_INTERVAL_HOURS * MsPerHour
                 /\ ~old.warningSent)
           /\ Sent("workflowWarning") => stateFile'[1].warningSent = TRUE
           /\ stateFile = << >> => ~Sent("workflowWarning")]_vars

\* a run exactly three hours after the last one sent the warning and saved
\* the flag
C9_Witness ==
  /\ Saved
  /\ prev.lastRun # 0
  /\ now - prev.lastRun = WARNING_INTERVAL_HOURS * MsPerHour
  /\ ~prev.warningSent
  /\ Sent("workflowWarning")
  /\ stateFile[1].warningSent

(***************************************************************************)
(* C10.  After a stall warning (persisted warningSent = true), a           *)
(* successful run whose gap now - lastRun is under the warning interval    *)
(* saves warningSent = false, so that the next stall is warned about.      *)
(***************************************************************************)
C10_FlagResetsAfterStall ==
  [][pc = "saveState" =>
       LET old == loadState(stateFile)
       IN  (/\ old.warningSent
            /\ old.lastRun # 0
            /\ now - old.lastRun < WARNING_INTERVAL_HOURS * MsPerHour)
           => stateFile'[1].warningSent = FALSE]_vars

(***************************************************************************)
(* C11.  A successful run sends the heartbeat if and only if the persisted *)
(* lastHeartbeat is unset (zero) or now - lastHeartbeat >= the heartbeat   *)
(* interval, whatever the ratios and zones are; it saves lastHeartbeat =   *)
(* now if it sent the heartbeat and the persisted lastHeartbeat if not.    *)
(***************************************************************************)
C11_Heartbeat ==
  [][pc = "saveState" =>
       LET old == loadState(stateFile)
       IN  /\ Sent("heartbeat") <=>
                (\/ old.lastHeartbeat = 0
                 \/ now - old.lastHeartbeat >= HEARTBEAT_INTERVAL_HOURS * MsPerHour)
           /\ stateFile'[1].lastHeartbeat =
                IF Sent("heartbeat") THEN now ELSE old.lastHeartbeat]_vars

\* a run exactly six hours after the last heartbeat sent the next one
C11_Witness ==
  /\ Saved
  /\ prev.lastHeartbeat # 0
  /\ now - prev.lastHeartbeat = HEARTBEAT_INTERVAL_HOURS * MsPerHour
  /\ Sent("heartbeat")
  /\ stateFile[1].lastHeartbeat = now

(***************************************************************************)
(* C12.  A run that finds a corrupt state file does not crash: once its    *)
(* fetch has returned a quote it goes on to its decisions with the         *)
(* fresh-start defaults as the loaded state (and so on to the sends and    *)
(* the save of a well-formed record).                                      *)
(***************************************************************************)
C12_CorruptStateIsFreshStart ==
  [][(/\ pc = "fetchPrices"
      /\ stateFile = <<CorruptBlob>>
      /\ pc' \notin {"fetchPrices", "fetchError", "hung"})
     => (pc' = "sendWorkflowWarning" /\ prev' = DefaultState)]_vars

(***************************************************************************)
(* C13.  In a run whose fetch succeeded and whose state loaded, whatever   *)
(* the notification channel does (credentials missing, POST failing): no   *)
(* call of sendTelegram ends the run, the calls made so far are the        *)
(* decided messages up to the current statement, each once and in order,   *)
(* and the run ends with saveState having written the full new record.     *)
(***************************************************************************)
\* the decided messages among the first k of the five, in the order of main
DecidedTexts(k) ==
  LET all == <<<<sendWorkflowWarning, "workflowWarning">>, <<sendHeartbeat, "heartbeat">>,
               <<bgCheck.triggered, "BG">>, <<brCheck.triggered, "BR">>,
               <<grCheck.triggered, "GR">>>>
      chosen == SelectSeq(SubSeq(all, 1, k), LAMBDA m : m[1])
  IN  [i \in 1..Len(chosen) |-> chosen[i][2]]

\* the number of the five send statements the run is past
SendsPassed ==
  CASE pc = "sendWorkflowWarning" -> 0
    [] pc = "sendHeartbeat" -> 1
    [] pc = "sendBG" -> 2
    [] pc = "sendBR" -> 3
    [] pc = "sendGR" -> 4
    [] OTHER -> 5

SendTexts == [i \in 1..Len(Sends) |-> Sends[i].arg]

C13_DeliveryFailureHarmless ==
  /\ pc = "crashed" => Sends = << >>
  /\ (Decided \/ Saved) => SendTexts = DecidedTexts(SendsPassed)
  /\ Saved => stateFile = saveState(NewState)

\* the first and the third message of a run were not delivered, the second
\* was, and the run saved its state
C13_Witness ==
  /\ Saved
  /\ Len(Sends) >= 3
  /\ delivered = <<Sends[2].arg>>
  /\ stateFile[1].lastRun = now

(***************************************************************************)
(* C14.  fetchPrices throws exactly when all four adapters have been       *)
(* attempted and every one of them failed; as soon as one adapter answers, *)
(* the run is in main's evaluation path, from which a statement of main is *)
(* always enabled until saveState has written the record.                  *)
(***************************************************************************)
AllAdaptersFailed ==
  /\ Len(Attempts) = Len(Apis)
  /\ \A i \in DOMAIN Attempts : Attempts[i] = Event("api:fail", Apis[i])

OneAdapterAnswered == \E i \in DOMAIN Attempts : Attempts[i].op = "api:ok"

C14_FetchFailsIffAllFail ==
  /\ (pc = "fetchError" \/ FetchFailed) <=> AllAdaptersFailed
  /\ OneAdapterAnswered <=> (Decided \/ Saved)
  /\ Decided => ENABLED (\/ MainSendWorkflowWarning \/ MainSendHeartbeat
                         \/ MainSendBG \/ MainSendBR \/ MainSendGR
                         \/ MainSaveState)

\* the last adapter answered after the three before it failed, and the run
\* evaluated the ratios and saved the record
C14_Witness ==
  /\ Saved
  /\ Len(Attempts) = Len(Apis)
  /\ Attempts[Len(Apis)] = Event("api:ok", "Binance")
  /\ \A i \in 1..(Len(Apis) - 1) : Attempts[i].op = "api:fail"
  /\ stateFile[1].lastRun = now

(***************************************************************************)
(* C15.  The first run ever (no state file) that has all three prices      *)
(* sends the heartbeat and no stall warning, alerts for a ratio exactly    *)
(* when the ratio is outside its band, and writes a record whose lastRun   *)
(* and lastHeartbeat are both the time of the run.                         *)
(***************************************************************************)
C15_FirstRun ==
  [][(/\ pc = "saveState"
      /\ stateFile = << >>
      /\ prices.gold # Null)
     => /\ Sent("heartbeat")
        /\ ~Sent("workflowWarning")
        /\ \A x \in RatioNames : Sent(AlertText(x)) <=> RunZone(x) # "inside"
        /\ stateFile'[1].lastRun = now
        /\ stateFile'[1].lastHeartbeat = now]_vars

\* a first run with gold has ended: heartbeat sent, one ratio alerted,
\* another one not, and the record carries the time of the run twice
C15_Witness ==
  /\ Saved
  /\ prev = DefaultState
  /\ prices.gold # Null
  /\ Sent("heartbeat")
  /\ \E x, y \in RatioNames : Sent(AlertText(x)) /\ ~Sent(AlertText(y))
  /\ stateFile[1].lastRun = now
  /\ stateFile[1].lastHeartbeat = now

(***************************************************************************)
(* C16.  checkBoundary is idempotent: when the value of a ratio is a       *)
(* number whose zone is the persisted zone and, for a zone outside the     *)
(* band, less than the cooldown has passed since the last alert, the call  *)
(* returns triggered = false with the zone and the last-alert time it was  *)
(* given, and the run sends no alert for that ratio; so a ratio that stays *)
(* inside its band run after run never alerts.                             *)
(***************************************************************************)
\* what checkBoundary returned for ratio x in this run
CheckOf(x) == CASE x = "bg" -> bgCheck [] x = "br" -> brCheck [] x = "gr" -> grCheck

Unchanged(x) ==
  /\ Present(x)
  /\ RunZone(x) = ZoneField(prev, x)
  /\ RunZone(x) # "inside" => now - WarnField(prev, x) < Cooldown

C16_Idempotent ==
  \A x \in RatioNames :
    /\ ((Decided \/ Saved) /\ Unchanged(x))
         => /\ CheckOf(x) = [triggered |-> FALSE,
                             newState |-> ZoneField(prev, x),
                             newWarningTime |-> WarnField(prev, x)]
            /\ checkBoundary(Value(ratios, x), Lower(x), Upper(x),
                             CheckOf(x).newState, CheckOf(x).newWarningTime, now)
                 = CheckOf(x)
    /\ (Saved /\ Unchanged(x))
         => /\ ~Sent(AlertText(x))
            /\ ZoneField(stateFile[1], x) = ZoneField(prev, x)
            /\ WarnField(stateFile[1], x) = WarnField(prev, x)

\* one ratio stayed outside its band within the cooldown and another stayed
\* inside its band after an earlier excursion; neither alerted and the
\* record kept both zones and both last-alert times
C16_Witness ==
  /\ Saved
  /\ \E x, y \in RatioNames :
       /\ Unchanged(x) /\ RunZone(x) # "inside"
       /\ Unchanged(y) /\ RunZone(y) = "inside" /\ WarnField(prev, y) # 0
       /\ ~Sent(AlertText(x)) /\ ~Sent(AlertText(y))
       /\ WarnField(stateFile[1], x) = WarnField(prev, x)
       /\ WarnField(stateFile[1], y) = WarnField(prev, y)

(***************************************************************************)
(* C17.  An adapter that never answers does not hold up the run: a run     *)
(* that has started always has a further statement of the program to       *)
(* execute (the next adapter, the catch of the fetch error, a send, the    *)
(* save, the exit) until it is over.                                       *)
(***************************************************************************)
C17_HangIsBounded == pc # "idle" => ENABLED Next

(***************************************************************************)
(* C18.  For positive prices calculateRatios returns the floor of each     *)
(* quotient: br = floor((btc/xrp)/1000) always, bg = floor(btc/gold) and   *)
(* gr = floor((gold/xrp)/100) when gold is present, and bg and gr are null *)
(* exactly when gold is absent.  The floor n of a/d is stated without the  *)
(* division: n*d <= a < (n+1)*d.  btc = 150000.00 with gold = 10000.00     *)
(* gives bg = 15 and btc = 149999.99 gives bg = 14.                        *)
(***************************************************************************)
IsFloor(r, a, d) == r # Null /\ r.v * d <= a /\ a < (r.v + 1) * d

C18_RatiosAreFloors ==
  pc = "calculated" =>
    LET btc == prices.btc.v
        xrp == prices.xrp.v
    IN  /\ IsFloor(ratios.br, btc, xrp * 1000)
        /\ prices.gold = Null <=> ratios.bg = Null
        /\ prices.gold = Null <=> ratios.gr = Null
        /\ prices.gold # Null =>
             /\ IsFloor(ratios.bg, btc, prices.gold.v)
             /\ IsFloor(ratios.gr, prices.gold.v, xrp * 100)
        /\ (prices.gold = Num(1000000) /\ btc = 15000000) => ratios.bg = Num(15)
        /\ (prices.gold = Num(1000000) /\ btc = 14999999) => ratios.bg = Num(14)

\* the quotient 14.999999 has been truncated to 14
C18_Witness ==
  /\ pc = "calculated"
  /\ prices.btc = Num(14999999)
  /\ prices.gold = Num(1000000)
  /\ ratios.bg = Num(14)
  /\ ratios.br # Null
  /\ ratios.gr # Null

(***************************************************************************)
(* C19.  A response without a usable price is a failure of its adapter:    *)
(* the quote that fetchPrices returns to main, from whichever adapter      *)
(* answered, has a btc and an xrp that are numbers, never NaN.             *)
(***************************************************************************)
C19_MalformedIsFailure ==
  (Decided \/ Saved) => (prices.btc # NaN /\ prices.xrp # NaN)

(***************************************************************************)
(* C20.  A zero or absent denominator yields an absent ratio: in a run     *)
(* that has its ratios, bg is null when gold is zero or absent, br and gr  *)
(* are null when xrp is zero, and no ratio that main evaluates is          *)
(* Infinity.                                                               *)
(***************************************************************************)
C20_ZeroDenominatorIsAbsent ==
  (Decided \/ Saved) =>
    /\ prices.gold \in {Null, Num(0)} => ratios.bg = Null
    /\ prices.xrp = Num(0) => (ratios.br = Null /\ ratios.gr = Null)
    /\ \A x \in RatioNames : Value(ratios, x) # Infinity

(***************************************************************************)
(* C21.  In src/script.js a run writes warningSent = false over a          *)
(* persisted warningSent = true only when the gap it observed,             *)
(* now - lastRun, is under the warning interval.                           *)
(***************************************************************************)
C21_FlagResetNeedsShortGap ==
  [][(/\ pc = "topSaveState"
      /\ stateFile # << >>
      /\ stateFile[1].warningSent
      /\ ~stateFile'[1].warningSent)
     => now - stateFile[1].lastRun < TopWarningIntervalMs]_vars

(***************************************************************************)
(* C22.  The three boundary machines are independent: in every run the     *)
(* result of the check of a ratio (alert, new zone, new last-alert time)   *)
(* is checkBoundary of that ratio's own value, band, persisted zone and    *)
(* persisted last-alert time and of now, the alert sent is that result's,  *)
(* and the record saved holds for each ratio the zone and the last-alert   *)
(* time of its own check.                                                  *)
(***************************************************************************)
OwnCheck(x) ==
  checkBoundary(Value(ratios, x), Lower(x), Upper(x),
                ZoneField(prev, x), WarnField(prev, x), now)

C22_MachinesIndependent ==
  \A x \in RatioNames :
    /\ (Decided \/ Saved) => CheckOf(x) = OwnCheck(x)
    /\ Saved => /\ Sent(AlertText(x)) <=> OwnCheck(x).triggered
                /\ ZoneField(stateFile[1], x) = OwnCheck(x).newState
                /\ WarnField(stateFile[1], x) = OwnCheck(x).newWarningTime

\* one ratio crossed into a new zone and alerted while another, outside its
\* band within the cooldown, kept its zone and its last-alert time
C22_Witness ==
  /\ Saved
  /\ \E x, y \in RatioNames :
       /\ x # y
       /\ Sent(AlertText(x))
       /\ ZoneField(stateFile[1], x) # ZoneField(prev, x)
       /\ WarnField(stateFile[1], x) = now
       /\ ZoneField(prev, y) # "inside"
       /\ ~Sent(AlertText(y))
       /\ ZoneField(stateFile[1], y) = ZoneField(prev, y)
       /\ WarnField(stateFile[1], y) = WarnField(prev, y)
       /\ WarnField(prev, y) # now

(***************************************************************************)
(* C23.  In a run whose fetch succeeded and whose state loaded, the calls  *)
(* of sendTelegram come in the order stall warning, heartbeat, BG, BR, GR, *)
(* each at most once (so at most five), all of them before saveState;      *)
(* saveState is called once, as the last step of the run, and a run that   *)
(* has ended has called it.                                                *)
(***************************************************************************)
MessageOrder == <<"workflowWarning", "heartbeat", "BG", "BR", "GR">>

Rank(text) == CHOOSE i \in DOMAIN MessageOrder : MessageOrder[i] = text

SaveCalls == {i \in DOMAIN log : log[i].op = "saveState"}

C23_SendsThenSave ==
  OneAdapterAnswered =>
    /\ \A i \in DOMAIN Sends : Sends[i].arg \in {MessageOrder[j] : j \in DOMAIN MessageOrder}
    /\ \A i, j \in DOMAIN Sends : i < j => Rank(Sends[i].arg) < Rank(Sends[j].arg)
    /\ Len(Sends) <= 5
    /\ SaveCalls \subseteq {Len(log)}
    /\ SaveCalls # {} <=> pc = "done"
    /\ pc # "crashed"

\* a run sent all five messages and then saved the record
C23_Witness ==
  /\ Saved
  /\ [i \in 1..Len(Sends) |-> Sends[i].arg] = MessageOrder
  /\ log[Len(log) - 1] = Event("sendTelegram", "GR")
  /\ stateFile[1].lastRun = now

(***************************************************************************)
(* C24.  Starting without a state file, every record the program leaves in *)
(* the file has lastHeartbeat <= lastRun, bgLastWarning, brLastWarning and *)
(* grLastWarning <= lastRun and zones among below, inside and above, and   *)
(* its lastRun is not less than the lastRun of the record it replaces.     *)
(***************************************************************************)
WellFormed(rec) ==
  /\ rec.lastHeartbeat <= rec.lastRun
  /\ \A x \in RatioNames :
       /\ WarnField(rec, x) <= rec.lastRun
       /\ ZoneField(rec, x) \in {"below", "inside", "above"}

C24_RecordInvariants ==
  [][stateFile' # << >> =>
       /\ WellFormed(stateFile'[1])
       /\ stateFile # << >> => stateFile[1].lastRun <= stateFile'[1].lastRun]_vars

\* a later run replaced a record: lastRun grew, the heartbeat time and one
\* last-alert time stayed behind it
C24_Witness ==
  /\ Saved
  /\ prev.lastRun # 0
  /\ prev.lastRun < stateFile[1].lastRun
  /\ stateFile[1].lastHeartbeat < stateFile[1].lastRun
  /\ \E x \in RatioNames :
       /\ WarnField(stateFile[1], x) # 0
       /\ WarnField(stateFile[1], x) < stateFile[1].lastRun
  /\ \E y \in RatioNames : WarnField(stateFile[1], y) = stateFile[1].lastRun
====
